---- MODULE Spec2Model ----
(***************************************************************************)
(* TitleProofAnchor (blockchain/algorand/contracts/title_proof.py): the    *)
(* ARC4 application that anchors Fabric state roots on Algorand.           *)
(*                                                                         *)
(* The host ledger applies application calls one at a time, so every ABI   *)
(* method is one atomic action.  A call whose assertion fails is rejected  *)
(* as a whole and leaves the global state as it was.  Method arguments are *)
(* the raw application-argument bytes of the transaction; the only checks  *)
(* made on them are the assertions written in the method bodies.           *)
(***************************************************************************)
EXTENDS Integers, Sequences, FiniteSets, TLC

\* ------------------------------------------------------------------ bounds
\* Largest host round explored.
MaxRound == 2
\* Largest number of accepted anchors explored.
MaxAnchors == 2
\* Largest number of accepted authority writes (initialize + rotate) explored.
MaxWrites == 3
\* Largest value of a UInt64, scaled down from 2^64 - 1 to three bits.
UInt64Max == 7
\* Largest number of title ASAs explored.
MaxAsas == 2
\* Largest number of recorded transfers explored, over all title ASAs.
MaxTransfers == 2

\* ------------------------------------------------------------ value domains
\* Bytes(b""), the empty byte string the contract compares against.
EmptyBytes == <<>>

\* The all-zero address (addresses are 32 bytes on Algorand, 2 here).
ZeroAddress == <<0, 0>>

\* A well-formed identity: a byte string of the length of an address.
WellFormed(b) == Len(b) = Len(ZeroAddress)

\* Accounts that can sign a transaction; none of them is the zero address.
Accounts == {<<1, 1>>, <<0, 1>>, <<1, 0>>}

\* op.Global.creator_address: the account that created the application.
creator_address == <<0, 1>>

\* Raw bytes a caller can pass where the ABI expects an address: the empty
\* string, a string that is too short, the zero address and the accounts.
AddressArgs == {EmptyBytes, <<1>>, ZeroAddress} \cup Accounts

\* The fields anchor_state never inspects: two triples that differ in every
\* field.
OpaqueFields ==
  {[state_code |-> "UP", channel_id |-> "c1", tx_count |-> 10],
   [state_code |-> "MH", channel_id |-> "c2", tx_count |-> 15]}
Blocks == {1, 2}
StateRoots == {<<>>, <<1>>}

\* The arguments of one anchor_state call.
Requests ==
  {[state_code |-> o.state_code, channel_id |-> o.channel_id,
    fabric_block_start |-> s, fabric_block_end |-> e,
    state_root |-> r, tx_count |-> o.tx_count] :
     o \in OpaqueFields, s \in Blocks, e \in Blocks, r \in StateRoots}

NoRequest ==
  [state_code |-> "", channel_id |-> "", fabric_block_start |-> 0,
   fabric_block_end |-> 0, state_root |-> <<>>, tx_count |-> 0]

\* ------------------------------------------------------------------- state
VARIABLES
  anchor_authority,   \* GlobalState[Bytes]: [exists, value]; no default
  total_anchors,      \* GlobalState[UInt64], default 0
  last_anchor_round,  \* GlobalState[UInt64], default 0
  round,              \* op.Global.round of the host ledger
  init_ok,            \* history: number of initialize calls that succeeded
  rotate_ok,          \* history: number of rotate_authority calls that succeeded
  anchor_ok,          \* history: number of anchor_state calls that succeeded
  former,             \* history: identities replaced by a successful rotation
  last,               \* history: the most recent call and its outcome
  indexed,            \* whether an indexer follows the application's calls
  anchor_log,         \* history: the accepted anchors, as an indexer replays them
  asa_notes           \* title_asa.py: per title ASA, the notes of its transactions

vars == <<anchor_authority, total_anchors, last_anchor_round, round,
          init_ok, rotate_ok, anchor_ok, former, last, indexed, anchor_log,
          asa_notes>>

\* The contract's global state, as one value.
GlobalStateNow ==
  [anchor_authority |-> anchor_authority, total_anchors |-> total_anchors,
   last_anchor_round |-> last_anchor_round]

\* The record kept of a call.
Call(op, sender, authority, req, err, ret) ==
  [op |-> op, sender |-> sender, authority |-> authority, req |-> req,
   err |-> err, ret |-> ret, pre |-> GlobalStateNow]

\* __init__: the authority has no value, both counters take their default.
Created ==
  /\ anchor_authority = [exists |-> FALSE, value |-> EmptyBytes]
  /\ total_anchors = 0
  /\ last_anchor_round = 0
  /\ round = 1
  /\ init_ok = 0
  /\ rotate_ok = 0
  /\ anchor_ok = 0
  /\ former = {}
  /\ last = [op |-> "create", sender |-> creator_address,
             authority |-> EmptyBytes, req |-> NoRequest, err |-> "ok",
             ret |-> 0,
             pre |-> [anchor_authority |-> [exists |-> FALSE, value |-> EmptyBytes],
                      total_anchors |-> 0, last_anchor_round |-> 0]]
  /\ anchor_log = <<>>
  /\ asa_notes = <<>>

\* A freshly created application that no indexer follows.
Init == Created /\ indexed = FALSE

\* A freshly created application whose calls an indexer replays.
InitLog == Created /\ indexed = TRUE

\* --------------------------------------------------------------- initialize
\* self.anchor_authority.get(default=...)
AuthorityGet(default) ==
  IF anchor_authority.exists THEN anchor_authority.value ELSE default

\* Variant of InitializeErr without the creator check.
InitializeErr_AnyCaller(sender, authority) ==
  IF AuthorityGet(EmptyBytes) # EmptyBytes THEN "AlreadyInitialized"
  ELSE "ok"

\* The assertions of initialize, in order; "ok" when all pass.
InitializeErr(sender, authority) ==
  IF sender # creator_address THEN "NotOwner"
  ELSE IF AuthorityGet(EmptyBytes) # EmptyBytes THEN "AlreadyInitialized"
  ELSE "ok"

\* self.anchor_authority.value = authority.bytes
InitializedAuthority(authority) == [exists |-> TRUE, value |-> authority]

initialize(sender, authority) ==
  LET err == InitializeErr(sender, authority) IN
  /\ err = "ok" => init_ok + rotate_ok < MaxWrites
  /\ anchor_authority' =
       IF err = "ok" THEN InitializedAuthority(authority)
       ELSE anchor_authority
  /\ init_ok' = IF err = "ok" THEN init_ok + 1 ELSE init_ok
  /\ last' = Call("initialize", sender, authority, NoRequest, err, 0)
  /\ UNCHANGED <<total_anchors, last_anchor_round, round, rotate_ok,
                 anchor_ok, former,
                 indexed, anchor_log,
                 asa_notes>>

\* ------------------------------------------------------------- anchor_state
\* Variant of IsAuthority that falls back on the creator while no authority
\* is stored.
IsAuthority_CreatorByDefault(sender) ==
  sender = AuthorityGet(creator_address)

\* Variant of IsAuthority that lets anyone through while no authority is
\* stored.
IsAuthority_AnyoneBeforeInit(sender) ==
  ~anchor_authority.exists \/ sender = anchor_authority.value

\* Txn.sender == self.anchor_authority.value; reading .value of a state that
\* has no value fails the call at the same statement.
IsAuthority(sender) ==
  anchor_authority.exists /\ sender = anchor_authority.value

\* Variant of AnchorStateErr that authorizes the creator instead of the
\* stored authority.
AnchorStateErr_CreatorAnchors(sender, req) ==
  IF sender # creator_address THEN "Unauthorized"
  ELSE IF ~(req.fabric_block_end >= req.fabric_block_start)
    THEN "InvalidBlockRange"
  ELSE IF ~(Len(req.state_root) > 0) THEN "EmptyStateRoot"
  ELSE "ok"

\* Variant of AnchorStateErr without the block range check.
AnchorStateErr_NoRangeCheck(sender, req) ==
  IF ~IsAuthority(sender) THEN "Unauthorized"
  ELSE IF ~(Len(req.state_root) > 0) THEN "EmptyStateRoot"
  ELSE "ok"

\* Variant of AnchorStateErr without the state root check.
AnchorStateErr_NoRootCheck(sender, req) ==
  IF ~IsAuthority(sender) THEN "Unauthorized"
  ELSE IF ~(req.fabric_block_end >= req.fabric_block_start)
    THEN "InvalidBlockRange"
  ELSE "ok"

\* Variant of AnchorStateErr that wants a range of more than one block.
AnchorStateErr_StrictRange(sender, req) ==
  IF ~IsAuthority(sender) THEN "Unauthorized"
  ELSE IF ~(req.fabric_block_end > req.fabric_block_start)
    THEN "InvalidBlockRange"
  ELSE IF ~(Len(req.state_root) > 0) THEN "EmptyStateRoot"
  ELSE "ok"

\* Variant of AnchorStateErr that looks at the state root before the range.
AnchorStateErr_RootBeforeRange(sender, req) ==
  IF ~IsAuthority(sender) THEN "Unauthorized"
  ELSE IF ~(Len(req.state_root) > 0) THEN "EmptyStateRoot"
  ELSE IF ~(req.fabric_block_end >= req.fabric_block_start)
    THEN "InvalidBlockRange"
  ELSE "ok"

\* The assertions of anchor_state, in order; "ok" when all pass.
AnchorStateErr(sender, req) ==
  IF ~IsAuthority(sender) THEN "Unauthorized"
  ELSE IF ~(req.fabric_block_end >= req.fabric_block_start)
    THEN "InvalidBlockRange"
  ELSE IF ~(Len(req.state_root) > 0) THEN "EmptyStateRoot"
  ELSE "ok"

\* Variant of NextTotal that counts an anchor twice.
NextTotal_CountsTwice == total_anchors + 2

\* Variant of NextTotal on a machine whose addition wraps around.
NextTotal_Wraps == (total_anchors + 1) % (UInt64Max + 1)

\* self.total_anchors.value + UInt64(1), as the sum of the two numbers.
NextTotal == total_anchors + 1

\* The addition of two UInt64 fails the call when the sum does not fit.
Overflows(sum) == sum > UInt64Max

\* The outcome of anchor_state: the assertions, then the addition.
AnchorStateOutcome(sender, req) ==
  IF AnchorStateErr(sender, req) = "ok" /\ Overflows(NextTotal)
  THEN "Overflow"
  ELSE AnchorStateErr(sender, req)

\* The exploration stops at MaxAnchors accepted anchors.
WithinAnchors(sender, req) ==
  AnchorStateOutcome(sender, req) = "ok" => total_anchors < MaxAnchors

\* Variant of ReturnedSequence that reads the counter as it was before the
\* call.
ReturnedSequence_BeforeIncrement == total_anchors

\* return arc4.UInt64(self.total_anchors.value)
ReturnedSequence == total_anchors'

\* What the transaction of an accepted anchor_state call leaves in the
\* ledger: its ABI arguments, its return value and its round.
AnchorRecord(req, seq, at) ==
  [sequence_number |-> seq, state_code |-> req.state_code,
   channel_id |-> req.channel_id,
   fabric_block_start |-> req.fabric_block_start,
   fabric_block_end |-> req.fabric_block_end,
   state_root |-> req.state_root, tx_count |-> req.tx_count,
   recorded_at |-> at]

\* Variant of AnchorRound in which the round is not recorded.
AnchorRound_NotRecorded == last_anchor_round

\* Variant of AnchorRound that records the round after the current one.
AnchorRound_Ahead == round + 1

\* self.last_anchor_round.value = op.Global.round
AnchorRound == round

\* Variant of anchor_state that records the round before it checks the call.
anchor_state_RoundBeforeChecks(sender, req) ==
  LET err == AnchorStateOutcome(sender, req) IN
  /\ total_anchors' = IF err = "ok" THEN NextTotal ELSE total_anchors
  /\ last_anchor_round' = AnchorRound
  /\ anchor_ok' = IF err = "ok" THEN anchor_ok + 1 ELSE anchor_ok
  /\ last' = Call("anchor_state", sender, EmptyBytes, req, err,
                  IF err = "ok" THEN ReturnedSequence ELSE 0)
  /\ anchor_log' =
       IF err = "ok" /\ indexed
       THEN Append(anchor_log, AnchorRecord(req, ReturnedSequence, round))
       ELSE anchor_log
  /\ UNCHANGED <<anchor_authority, round, init_ok, rotate_ok, former,
                 indexed,
                 asa_notes>>

anchor_state(sender, req) ==
  LET err == AnchorStateOutcome(sender, req) IN
  /\ total_anchors' = IF err = "ok" THEN NextTotal ELSE total_anchors
  /\ last_anchor_round' = IF err = "ok" THEN AnchorRound ELSE last_anchor_round
  /\ anchor_ok' = IF err = "ok" THEN anchor_ok + 1 ELSE anchor_ok
  /\ last' = Call("anchor_state", sender, EmptyBytes, req, err,
                  IF err = "ok" THEN ReturnedSequence ELSE 0)
  /\ anchor_log' =
       IF err = "ok" /\ indexed
       THEN Append(anchor_log, AnchorRecord(req, ReturnedSequence, round))
       ELSE anchor_log
  /\ UNCHANGED <<anchor_authority, round, init_ok, rotate_ok, former,
                 indexed,
                 asa_notes>>

\* --------------------------------------------------------- get_anchor_count
\* Variant of get_anchor_count that only answers the authority.
get_anchor_count_AuthorityOnly(sender) ==
  /\ last' = Call("get_anchor_count", sender, EmptyBytes, NoRequest,
                  IF IsAuthority(sender) THEN "ok" ELSE "Unauthorized",
                  IF IsAuthority(sender) THEN total_anchors ELSE 0)
  /\ UNCHANGED <<anchor_authority, total_anchors, last_anchor_round, round,
                 init_ok, rotate_ok, anchor_ok, former,
                 indexed, anchor_log,
                 asa_notes>>

get_anchor_count(sender) ==
  /\ last' = Call("get_anchor_count", sender, EmptyBytes, NoRequest, "ok",
                  total_anchors)
  /\ UNCHANGED <<anchor_authority, total_anchors, last_anchor_round, round,
                 init_ok, rotate_ok, anchor_ok, former,
                 indexed, anchor_log,
                 asa_notes>>

\* --------------------------------------------------------- rotate_authority
\* Variant of RotateAuthorityErr that lets an account claim the authority
\* for itself.
RotateAuthorityErr_SelfNomination(sender, new_authority) ==
  IF ~IsAuthority(sender) /\ new_authority # sender THEN "Unauthorized"
  ELSE IF ~(new_authority # EmptyBytes) THEN "InvalidAuthority"
  ELSE "ok"

\* The assertions of rotate_authority, in order; "ok" when all pass.
RotateAuthorityErr(sender, new_authority) ==
  IF ~IsAuthority(sender) THEN "Unauthorized"
  ELSE IF ~(new_authority # EmptyBytes) THEN "InvalidAuthority"
  ELSE "ok"

\* Variant of RotatedAuthority in which the write is lost.
RotatedAuthority_KeepsOld(new_authority) == anchor_authority

\* self.anchor_authority.value = new_authority.bytes
RotatedAuthority(new_authority) == [exists |-> TRUE, value |-> new_authority]

\* Variant of rotate_authority that starts a new sequence for the new
\* authority.
rotate_authority_ResetsCounter(sender, new_authority) ==
  LET err == RotateAuthorityErr(sender, new_authority) IN
  /\ err = "ok" => init_ok + rotate_ok < MaxWrites
  /\ anchor_authority' =
       IF err = "ok" THEN RotatedAuthority(new_authority)
       ELSE anchor_authority
  /\ total_anchors' = IF err = "ok" THEN 0 ELSE total_anchors
  /\ rotate_ok' = IF err = "ok" THEN rotate_ok + 1 ELSE rotate_ok
  /\ former' =
       IF err = "ok" /\ new_authority # anchor_authority.value
       THEN (former \ {new_authority}) \cup {anchor_authority.value}
       ELSE former
  /\ last' = Call("rotate_authority", sender, new_authority, NoRequest, err, 0)
  /\ UNCHANGED <<last_anchor_round, round, init_ok, anchor_ok,
                 indexed, anchor_log,
                 asa_notes>>

\* Variant of rotate_authority that records the round of the rotation in
\* last_anchor_round.
rotate_authority_StampsRound(sender, new_authority) ==
  LET err == RotateAuthorityErr(sender, new_authority) IN
  /\ err = "ok" => init_ok + rotate_ok < MaxWrites
  /\ anchor_authority' =
       IF err = "ok" THEN RotatedAuthority(new_authority)
       ELSE anchor_authority
  /\ last_anchor_round' = IF err = "ok" THEN round ELSE last_anchor_round
  /\ rotate_ok' = IF err = "ok" THEN rotate_ok + 1 ELSE rotate_ok
  /\ former' =
       IF err = "ok" /\ new_authority # anchor_authority.value
       THEN (former \ {new_authority}) \cup {anchor_authority.value}
       ELSE former
  /\ last' = Call("rotate_authority", sender, new_authority, NoRequest, err, 0)
  /\ UNCHANGED <<total_anchors, round, init_ok, anchor_ok,
                 indexed, anchor_log, asa_notes>>

rotate_authority(sender, new_authority) ==
  LET err == RotateAuthorityErr(sender, new_authority) IN
  /\ err = "ok" => init_ok + rotate_ok < MaxWrites
  /\ anchor_authority' =
       IF err = "ok" THEN RotatedAuthority(new_authority)
       ELSE anchor_authority
  /\ rotate_ok' = IF err = "ok" THEN rotate_ok + 1 ELSE rotate_ok
  /\ former' =
       IF err = "ok" /\ new_authority # anchor_authority.value
       THEN (former \ {new_authority}) \cup {anchor_authority.value}
       ELSE former
  /\ last' = Call("rotate_authority", sender, new_authority, NoRequest, err, 0)
  /\ UNCHANGED <<total_anchors, last_anchor_round, round, init_ok, anchor_ok,
                 indexed, anchor_log,
                 asa_notes>>

\* -------------------------------------------------------------- host ledger
\* The host ledger moves on to its next round.
NextRound ==
  /\ round < MaxRound
  /\ round' = round + 1
  /\ UNCHANGED <<anchor_authority, total_anchors, last_anchor_round,
                 init_ok, rotate_ok, anchor_ok, former, last,
                 indexed, anchor_log,
                 asa_notes>>

Next ==
  \/ \E sender \in Accounts, authority \in AddressArgs :
       initialize(sender, authority)
  \/ \E sender \in Accounts, req \in Requests :
       WithinAnchors(sender, req) /\ anchor_state(sender, req)
  \/ \E sender \in Accounts : get_anchor_count(sender)
  \/ \E sender \in Accounts, new_authority \in AddressArgs :
       rotate_authority(sender, new_authority)
  \/ NextRound

Spec == Init /\ [][Next]_vars

\* ------------------------------------------------- the calls, as indexed
\* The callers and identities used while the indexer's view is followed.
LogAccounts == {creator_address, <<1, 1>>}

\* The requests used while the indexer's view is followed: every block range
\* with and without a state root for one triple of opaque fields, and one
\* acceptable request with the other triple.
LogRequests ==
  {r \in Requests :
     \/ r.state_code = "UP"
     \/ (/\ r.fabric_block_start = 1 /\ r.fabric_block_end = 2
         /\ r.state_root # <<>>)}

NextLog ==
  \/ \E sender \in LogAccounts, authority \in LogAccounts :
       initialize(sender, authority)
  \/ \E sender \in LogAccounts, req \in LogRequests :
       WithinAnchors(sender, req) /\ anchor_state(sender, req)
  \/ \E sender \in LogAccounts : get_anchor_count(sender)
  \/ \E sender \in LogAccounts, new_authority \in LogAccounts :
       rotate_authority(sender, new_authority)
  \/ NextRound

SpecLog == InitLog /\ [][NextLog]_vars

\* ------------------------------------------------- scripts/deploy.py: deploy
\* deployer: the account whose key signs both transactions of the script;
\* it sends the create transaction, so it is the application's creator.
deployer == creator_address

\* The principals other than the deployer.
OtherAccounts == Accounts \ {deployer}

\* app_client.send.call(method="initialize", args=[deployer.address])
deploy_initialize == initialize(deployer, deployer)

\* The script has sent its initialize call; it makes no call after it.
DeployInitialized == last.op = "initialize" /\ last.sender = deployer

\* Between factory.send.bare.create and the script's initialize call the
\* other principals call the application as they like.
NextDeploy ==
  /\ ~DeployInitialized
  /\ \/ deploy_initialize
     \/ \E sender \in OtherAccounts, authority \in AddressArgs :
          initialize(sender, authority)
     \/ \E sender \in OtherAccounts, req \in Requests :
          WithinAnchors(sender, req) /\ anchor_state(sender, req)
     \/ \E sender \in OtherAccounts : get_anchor_count(sender)
     \/ \E sender \in OtherAccounts, new_authority \in AddressArgs :
          rotate_authority(sender, new_authority)
     \/ NextRound

SpecDeploy == Init /\ [][NextDeploy]_vars

\* ------------------------------------------- the counter up to its last value
\* The requests used while the counter is followed up to UInt64Max: one
\* acceptable request and one without a state root.
OverflowRequests ==
  {r \in Requests :
     /\ r.state_code = "UP"
     /\ r.fabric_block_start = 1 /\ r.fabric_block_end = 2}

NextOverflow ==
  \/ \E sender \in LogAccounts, authority \in LogAccounts :
       initialize(sender, authority)
  \/ \E sender \in LogAccounts, req \in OverflowRequests :
       anchor_state(sender, req)
  \/ \E sender \in LogAccounts : get_anchor_count(sender)
  \/ \E sender \in LogAccounts, new_authority \in LogAccounts :
       rotate_authority(sender, new_authority)
  \/ NextRound

SpecOverflow == Init /\ [][NextOverflow]_vars

\* ------------------------------------------------- contracts/title_asa.py
\* Hashed owner identifiers, property identifiers, Fabric transaction ids
\* and document hashes: opaque strings.
OwnerHashes == {"sha256:a", "sha256:b"}
PropertyIds == {"UP-LKO-001-00123"}
FabricTxIds == {"fabric-tx-1"}
DocumentHashes == {"QmDeed"}

\* The note of the asset creation transaction.  json.dumps writes the dict
\* as one JSON object; a reader gets the same keys and values back, so the
\* note is the record of its fields.
CreationNote(property_id, owner_hash, fabric_tx_id, document_hash) ==
  [standard |-> "bhulekhchain-v1", property_id |-> property_id,
   owner_hash |-> owner_hash, fabric_tx_id |-> fabric_tx_id,
   document_hash |-> document_hash, type |-> "TITLE_CERTIFICATE"]

\* Variant of TransferNote with the two owner fields exchanged.
TransferNote_OwnersSwapped(asa_id, old_owner, new_owner, fabric_tx_id) ==
  [standard |-> "bhulekhchain-v1", action |-> "OWNERSHIP_TRANSFER",
   asa_id |-> asa_id, previous_owner_hash |-> new_owner,
   new_owner_hash |-> old_owner, fabric_tx_id |-> fabric_tx_id]

\* The note of a transfer record.
TransferNote(asa_id, old_owner, new_owner, fabric_tx_id) ==
  [standard |-> "bhulekhchain-v1", action |-> "OWNERSHIP_TRANSFER",
   asa_id |-> asa_id, previous_owner_hash |-> old_owner,
   new_owner_hash |-> new_owner, fabric_tx_id |-> fabric_tx_id]

\* The number of transfer records written so far.
RECURSIVE TransferCount(_)
TransferCount(trails) ==
  IF trails = <<>> THEN 0
  ELSE Len(Head(trails)) - 1 + TransferCount(Tail(trails))

\* algorand.send.asset_create: the ledger gives the new asset the next id
\* and keeps the creation transaction with its note.
create_title_certificate_asa(property_id, owner_hash, fabric_tx_id, document_hash) ==
  /\ Len(asa_notes) < MaxAsas
  /\ asa_notes' =
       Append(asa_notes,
              <<CreationNote(property_id, owner_hash, fabric_tx_id,
                             document_hash)>>)
  /\ last' = [op |-> "create_title_certificate_asa", err |-> "ok",
              ret |-> Len(asa_notes) + 1, property_id |-> property_id,
              owner_hash |-> owner_hash]
  /\ UNCHANGED <<anchor_authority, total_anchors, last_anchor_round, round,
                 init_ok, rotate_ok, anchor_ok, former, indexed, anchor_log>>

\* algorand.send.asset_transfer of amount 0 from the anchor account to
\* itself: the ledger rejects it when the asset does not exist, and keeps
\* the transaction with its note otherwise.
transfer_title_asa(asa_id, old_owner, new_owner, transfer_fabric_tx_id) ==
  LET err == IF asa_id \in 1..Len(asa_notes) THEN "ok" ELSE "AssetNotFound" IN
  /\ err = "ok" => TransferCount(asa_notes) < MaxTransfers
  /\ asa_notes' =
       IF err = "ok"
       THEN [asa_notes EXCEPT
               ![asa_id] = Append(@, TransferNote(asa_id, old_owner, new_owner,
                                                  transfer_fabric_tx_id))]
       ELSE asa_notes
  /\ last' = [op |-> "transfer_title_asa", err |-> err, asa_id |-> asa_id,
              old_owner |-> old_owner, new_owner |-> new_owner]
  /\ UNCHANGED <<anchor_authority, total_anchors, last_anchor_round, round,
                 init_ok, rotate_ok, anchor_ok, former, indexed, anchor_log>>

\* The owner hash a note records: owner_hash of the creation note,
\* new_owner_hash of a transfer note.
RecordedOwner(note) ==
  IF "new_owner_hash" \in DOMAIN note THEN note.new_owner_hash
  ELSE note.owner_hash

\* The trail of one title ASA, read chronologically, is linked.
Linked(notes) ==
  \A k \in 2..Len(notes) :
    notes[k].previous_owner_hash = RecordedOwner(notes[k - 1])

NextTitle ==
  \/ \E property_id \in PropertyIds, owner_hash \in OwnerHashes,
        fabric_tx_id \in FabricTxIds, document_hash \in DocumentHashes :
       create_title_certificate_asa(property_id, owner_hash, fabric_tx_id,
                                    document_hash)
  \/ \E asa_id \in 1..MaxAsas, old_owner \in OwnerHashes,
        new_owner \in OwnerHashes, fabric_tx_id \in FabricTxIds :
       transfer_title_asa(asa_id, old_owner, new_owner, fabric_tx_id)

SpecTitle == Init /\ [][NextTitle]_vars

\* ================================================================== claims

\* C1: on a freshly deployed contract total_anchors always equals the number
\* of anchor_state calls that have succeeded so far, a successful
\* anchor_state call returns that number (the i-th success returns i, the
\* value of total_anchors right after the call), and total_anchors never
\* decreases.
C1_TotalAnchorsCountsSuccesses ==
  /\ [](/\ total_anchors = anchor_ok
        /\ (last.op = "anchor_state" /\ last.err = "ok") =>
             (last.ret = anchor_ok /\ last.ret = total_anchors))
  /\ [][total_anchors' >= total_anchors]_vars

C1_Witness ==
  /\ last.op = "anchor_state" /\ last.err = "ok"
  /\ last.ret = 2 /\ anchor_ok = 2
  /\ rotate_ok >= 1

\* C2: an anchor_state call whose caller is not the stored authority fails
\* with Unauthorized, whatever the number of rotations before it.
C2_NonAuthorityAnchorUnauthorized ==
  (/\ last.op = "anchor_state"
   /\ ~(/\ last.pre.anchor_authority.exists
        /\ last.sender = last.pre.anchor_authority.value))
    => last.err = "Unauthorized"

C2_Witness ==
  /\ last.op = "anchor_state"
  /\ rotate_ok >= 2
  /\ last.pre.anchor_authority.exists
  /\ last.sender # last.pre.anchor_authority.value
  /\ last.err = "Unauthorized"

\* C3: at most one initialize call succeeds on one contract instance.
C3_AtMostOneInitialize == init_ok <= 1

\* C4: once an initialize call has succeeded, every later initialize call
\* fails with AlreadyInitialized, whoever calls and whatever the argument.
C4_LaterInitializeAlreadyInitialized ==
  (/\ last.op = "initialize"
   /\ init_ok - (IF last.err = "ok" THEN 1 ELSE 0) >= 1)
    => last.err = "AlreadyInitialized"

\* C5: on a contract that is not initialized, initialize from an account
\* other than the creator fails with NotOwner and leaves the authority as it
\* was, and the authority of such a contract is set only by an initialize
\* call of the creator.
C5_OnlyCreatorInitializes ==
  /\ []((/\ last.op = "initialize"
         /\ ~last.pre.anchor_authority.exists
         /\ last.sender # creator_address)
          => (/\ last.err = "NotOwner"
              /\ anchor_authority = last.pre.anchor_authority))
  /\ [][(~anchor_authority.exists /\ anchor_authority' # anchor_authority)
          => (/\ last'.op = "initialize"
              /\ last'.sender = creator_address
              /\ last'.err = "ok")]_vars

C5_Witness ==
  /\ last.op = "initialize"
  /\ ~last.pre.anchor_authority.exists
  /\ last.sender # creator_address
  /\ last.authority = last.sender
  /\ last.err = "NotOwner"
  /\ ~anchor_authority.exists

\* C6: an identity that a successful rotation has replaced, and that no later
\* rotation has made the authority again, gets Unauthorized from every
\* anchor_state and rotate_authority call, starting with the call right after
\* the rotation.
C6_FormerAuthorityUnauthorized ==
  [][(/\ round' = round
      /\ last'.op \in {"anchor_state", "rotate_authority"}
      /\ last'.sender \in former)
       => last'.err = "Unauthorized"]_vars

C6_Witness ==
  /\ last.op = "anchor_state"
  /\ last.sender \in former
  /\ last.sender # anchor_authority.value
  /\ anchor_authority.value \in Accounts
  /\ last.req.fabric_block_end >= last.req.fabric_block_start
  /\ last.req.state_root # <<>>
  /\ last.err = "Unauthorized"

\* C7: after a successful rotation, a well-formed anchor_state call from the
\* stored authority succeeds and returns total_anchors + 1, which is the
\* number of anchors accepted since deployment: the sequence is not reset by
\* the rotation and is not kept per authority.
C7_SequenceContinuesAcrossRotation ==
  (/\ last.op = "anchor_state"
   /\ rotate_ok >= 1
   /\ last.pre.anchor_authority.exists
   /\ last.sender = last.pre.anchor_authority.value
   /\ last.req.fabric_block_end >= last.req.fabric_block_start
   /\ last.req.state_root # <<>>)
    => (/\ last.err = "ok"
        /\ last.ret = last.pre.total_anchors + 1
        /\ last.ret = anchor_ok)

C7_Witness ==
  /\ last.op = "anchor_state"
  /\ rotate_ok >= 1
  /\ last.sender = anchor_authority.value
  /\ last.sender \notin former
  /\ former # {}
  /\ last.err = "ok"
  /\ last.pre.total_anchors = 1
  /\ last.ret = 2

\* C8: a rotate_authority call whose caller is not the stored authority fails
\* with Unauthorized and leaves the stored authority as it was, whatever new
\* authority it names.
C8_NonAuthorityRotateUnauthorized ==
  (/\ last.op = "rotate_authority"
   /\ ~(/\ last.pre.anchor_authority.exists
        /\ last.sender = last.pre.anchor_authority.value))
    => (/\ last.err = "Unauthorized"
        /\ anchor_authority = last.pre.anchor_authority)

C8_Witness ==
  /\ last.op = "rotate_authority"
  /\ last.pre.anchor_authority.exists
  /\ last.pre.anchor_authority.value \in Accounts
  /\ last.sender # last.pre.anchor_authority.value
  /\ last.authority = last.sender
  /\ last.err = "Unauthorized"
  /\ anchor_authority = last.pre.anchor_authority

\* C9: a rotate_authority call of the stored authority with an empty or
\* malformed new identity fails with InvalidAuthority and leaves the stored
\* authority as it was.
C9_InvalidNewAuthorityRejected ==
  (/\ last.op = "rotate_authority"
   /\ last.pre.anchor_authority.exists
   /\ last.sender = last.pre.anchor_authority.value
   /\ (last.authority = EmptyBytes \/ ~WellFormed(last.authority)))
    => (/\ last.err = "InvalidAuthority"
        /\ anchor_authority = last.pre.anchor_authority)

\* C10: a rotate_authority call of the stored authority that names the zero
\* address is rejected and leaves the stored authority as it was.
C10_ZeroAddressRejected ==
  (/\ last.op = "rotate_authority"
   /\ last.pre.anchor_authority.exists
   /\ last.sender = last.pre.anchor_authority.value
   /\ last.authority = ZeroAddress)
    => (/\ last.err # "ok"
        /\ anchor_authority = last.pre.anchor_authority)

\* C11: an anchor_state call of the stored authority with block_end <
\* block_start fails with InvalidBlockRange and leaves total_anchors as it was.
C11_InvalidBlockRangeRejected ==
  (/\ last.op = "anchor_state"
   /\ last.pre.anchor_authority.exists
   /\ last.sender = last.pre.anchor_authority.value
   /\ last.req.fabric_block_end < last.req.fabric_block_start)
    => (/\ last.err = "InvalidBlockRange"
        /\ total_anchors = last.pre.total_anchors)

C11_Witness ==
  /\ last.op = "anchor_state"
  /\ last.sender = anchor_authority.value
  /\ last.req.fabric_block_end < last.req.fabric_block_start
  /\ last.req.state_root # <<>>
  /\ last.err = "InvalidBlockRange"
  /\ last.pre.total_anchors = 1
  /\ total_anchors = 1

\* C12 (as stated): an anchor_state call of the stored authority with an empty
\* state root fails with EmptyStateRoot and leaves total_anchors as it was.
C12_EmptyStateRootRejected ==
  (/\ last.op = "anchor_state"
   /\ last.pre.anchor_authority.exists
   /\ last.sender = last.pre.anchor_authority.value
   /\ last.req.state_root = <<>>)
    => (/\ last.err = "EmptyStateRoot"
        /\ total_anchors = last.pre.total_anchors)

\* C12 (amended): an anchor_state call of the stored authority with
\* block_end >= block_start and an empty state root fails with EmptyStateRoot
\* and leaves total_anchors as it was.
C12_EmptyStateRootRejectedInRange ==
  (/\ last.op = "anchor_state"
   /\ last.pre.anchor_authority.exists
   /\ last.sender = last.pre.anchor_authority.value
   /\ last.req.fabric_block_end >= last.req.fabric_block_start
   /\ last.req.state_root = <<>>)
    => (/\ last.err = "EmptyStateRoot"
        /\ total_anchors = last.pre.total_anchors)

C12_Witness ==
  /\ last.op = "anchor_state"
  /\ last.sender = anchor_authority.value
  /\ last.req.fabric_block_end >= last.req.fabric_block_start
  /\ last.req.state_root = <<>>
  /\ last.err = "EmptyStateRoot"
  /\ last.pre.total_anchors = 1
  /\ total_anchors = 1

\* C13: a rejected initialize, rotate_authority or anchor_state call, whatever
\* its error, leaves anchor_authority, total_anchors and last_anchor_round
\* equal to their values before the call.
C13_RejectedCallChangesNothing ==
  (/\ last.op \in {"initialize", "rotate_authority", "anchor_state"}
   /\ last.err # "ok")
    => GlobalStateNow = last.pre

C13_Witness ==
  /\ last.op = "anchor_state"
  /\ last.err = "EmptyStateRoot"
  /\ last.pre.total_anchors = 1
  /\ last.pre.last_anchor_round = 1
  /\ round = 2
  /\ GlobalStateNow = last.pre

\* C14: get_anchor_count succeeds for every caller in every reachable state,
\* returns total_anchors (0 before initialization) and changes no state
\* variable.
C14_GetAnchorCountReadsOnly ==
  /\ [](last.op = "get_anchor_count"
          => (/\ last.err = "ok"
              /\ last.ret = total_anchors
              /\ GlobalStateNow = last.pre))
  /\ [][(round' = round /\ last'.op = "get_anchor_count")
          => (/\ last'.ret = total_anchors
              /\ GlobalStateNow' = GlobalStateNow)]_vars

C14_Witness ==
  /\ last.op = "get_anchor_count"
  /\ ~anchor_authority.exists
  /\ last.sender # creator_address
  /\ last.err = "ok"
  /\ last.ret = 0

\* C15: a successful anchor_state adds exactly 1 to total_anchors and sets
\* last_anchor_round to the host round of the call, in one step; neither
\* counter changes in any other step, so no state shows one update without
\* the other and last_anchor_round is the round of the latest accepted anchor.
C15_CountersMoveTogether ==
  /\ []((total_anchors = 0) <=> (last_anchor_round = 0))
  /\ [][/\ (round' = round /\ last'.op = "anchor_state" /\ last'.err = "ok")
            => (/\ total_anchors' = total_anchors + 1
                /\ last_anchor_round' = round)
        /\ (total_anchors' # total_anchors
              \/ last_anchor_round' # last_anchor_round)
            => (/\ round' = round
                /\ last'.op = "anchor_state" /\ last'.err = "ok")]_vars

C15_Witness ==
  /\ last.op = "anchor_state"
  /\ last.err = "ok"
  /\ last.pre.total_anchors = 1
  /\ last.pre.last_anchor_round = 1
  /\ total_anchors = 2
  /\ last_anchor_round = 2

\* C16: the history of accepted anchors is append-only.  A record is added
\* exactly when an anchor_state call succeeds; it carries the sequence number
\* that call returned, the call's state code, channel, block range, state
\* root and tx count, and the host round of the call; the k-th record has
\* sequence number k; no call changes, reorders or removes a record.
C16_AnchorLogAppendOnly ==
  /\ [](/\ Len(anchor_log) = anchor_ok
        /\ \A k \in 1..Len(anchor_log) : anchor_log[k].sequence_number = k)
  /\ [][IF round' = round /\ last'.op = "anchor_state" /\ last'.err = "ok"
        THEN anchor_log' =
               Append(anchor_log, AnchorRecord(last'.req, last'.ret, round))
        ELSE anchor_log' = anchor_log]_vars

C16_Witness ==
  /\ Len(anchor_log) = 2
  /\ anchor_log[1].recorded_at = 1
  /\ anchor_log[2].recorded_at = 2
  /\ anchor_log[1].state_code # anchor_log[2].state_code
  /\ last.op = "rotate_authority"
  /\ last.err = "ok"
  /\ last.authority # last.sender

\* C17: anchor_state succeeds exactly when the caller is the stored
\* authority, block_end >= block_start and the state root is not empty,
\* whatever the state code, the channel, the tx count and the anchors accepted
\* before: a range that overlaps, repeats or precedes an earlier anchor of the
\* same channel, or that has start = end, is accepted and gets the next
\* sequence number.
C17_AcceptanceCriteria ==
  last.op = "anchor_state" =>
    /\ last.err = "ok" <=>
         (/\ last.pre.anchor_authority.exists
          /\ last.sender = last.pre.anchor_authority.value
          /\ last.req.fabric_block_end >= last.req.fabric_block_start
          /\ last.req.state_root # <<>>)
    /\ last.err = "ok" =>
         (/\ last.ret = last.pre.total_anchors + 1
          /\ last.ret = Len(anchor_log))

C17_Witness ==
  /\ last.op = "anchor_state"
  /\ last.err = "ok"
  /\ last.ret = 2
  /\ Len(anchor_log) = 2
  /\ anchor_log[1].channel_id = anchor_log[2].channel_id
  /\ anchor_log[1].fabric_block_start = 1
  /\ anchor_log[1].fabric_block_end = 2
  /\ anchor_log[2].fabric_block_start = 1
  /\ anchor_log[2].fabric_block_end = 1

\* C18: the stored authority is either unset or a non-empty, well-formed
\* identity.
C18_AuthorityWellFormed ==
  anchor_authority.exists =>
    (anchor_authority.value # EmptyBytes /\ WellFormed(anchor_authority.value))

C20_FirstFailingCheckDecides ==
  last.op = "anchor_state" =>
    LET authorized == /\ last.pre.anchor_authority.exists
                      /\ last.sender = last.pre.anchor_authority.value
        range_ok == last.req.fabric_block_end >= last.req.fabric_block_start
        root_ok == last.req.state_root # <<>>
    IN /\ ~authorized => last.err = "Unauthorized"
       /\ (authorized /\ ~range_ok) => last.err = "InvalidBlockRange"
       /\ (authorized /\ range_ok /\ ~root_ok) => last.err = "EmptyStateRoot"
       /\ (authorized /\ range_ok /\ root_ok) => last.err = "ok"

C20_Witness ==
  /\ last.op = "anchor_state"
  /\ last.sender = anchor_authority.value
  /\ last.req.fabric_block_end < last.req.fabric_block_start
  /\ last.req.state_root = <<>>
  /\ last.err = "InvalidBlockRange"

\* C21: the counters move only in a successful anchor_state call.  An
\* initialize or rotate_authority call, accepted or rejected, leaves
\* total_anchors and last_anchor_round as they were; an anchor_state call,
\* accepted or rejected, leaves the stored authority as it was.
C21_CountersMoveOnlyInAnchorState ==
  /\ last.op \in {"initialize", "rotate_authority"}
       => (/\ total_anchors = last.pre.total_anchors
           /\ last_anchor_round = last.pre.last_anchor_round)
  /\ last.op = "anchor_state"
       => anchor_authority = last.pre.anchor_authority
  /\ (\/ total_anchors # last.pre.total_anchors
      \/ last_anchor_round # last.pre.last_anchor_round)
       => (last.op = "anchor_state" /\ last.err = "ok")

C21_Witness ==
  /\ last.op = "rotate_authority"
  /\ last.err = "ok"
  /\ last.pre.total_anchors = 1
  /\ last.pre.last_anchor_round = 1
  /\ round = 2
  /\ anchor_authority # last.pre.anchor_authority

\* C22: the step from uninitialized to initialized is one-way.  Once an
\* initialize call has succeeded, the authority is set and no initialize
\* call can succeed, whatever calls were made since then.
C22_InitializedForGood ==
  init_ok >= 1
    => (/\ anchor_authority.exists
        /\ anchor_authority.value # EmptyBytes
        /\ \A authority \in AddressArgs :
             InitializeErr(creator_address, authority) # "ok")

\* C23: in the deploy sequence no call of another principal made between the
\* create transaction and the script's initialize call sets the authority or
\* moves a counter; the script's initialize call succeeds, and the sequence
\* ends with the deployer as authority and total_anchors at 0.
C23_DeployEndsInitialized ==
  /\ ~DeployInitialized
       => (/\ ~anchor_authority.exists
           /\ total_anchors = 0
           /\ last_anchor_round = 0
           /\ last.err = "ok" => last.op \in {"create", "get_anchor_count"})
  /\ DeployInitialized
       => (/\ last.err = "ok"
           /\ anchor_authority = [exists |-> TRUE, value |-> deployer]
           /\ total_anchors = 0)

C23_Witness ==
  /\ DeployInitialized
  /\ last.err = "ok"
  /\ round = MaxRound
  /\ anchor_authority.value = deployer

\* C24: after initialization the creator has no special rights.  While the
\* stored authority is not the creator, an anchor_state, rotate_authority or
\* initialize call of the creator fails; and once initialized, the stored
\* authority changes only in a successful rotate_authority call made by the
\* authority stored at that moment.
C24_CreatorKeepsNoRights ==
  /\ []((/\ last.op \in {"initialize", "rotate_authority", "anchor_state"}
         /\ last.sender = creator_address
         /\ last.pre.anchor_authority.exists
         /\ last.pre.anchor_authority.value # creator_address)
          => last.err # "ok")
  /\ [][(init_ok >= 1 /\ anchor_authority' # anchor_authority)
          => (/\ last'.op = "rotate_authority"
              /\ last'.err = "ok"
              /\ last'.sender = anchor_authority.value)]_vars

\* Some account is the stored authority, or initialize can still store one:
\* a later anchor_state call can be accepted.
CanStillAnchor ==
  \/ \E sender \in Accounts : IsAuthority(sender)
  \/ \E authority \in Accounts :
       InitializeErr(creator_address, authority) = "ok"

\* C25: from every initialized state a state in which an anchor_state call
\* is accepted stays reachable: the stored authority is an identity that
\* some caller can present.
C25_AnchoringStaysPossible == init_ok >= 1 => CanStillAnchor

\* C26: while the host round never decreases, last_anchor_round never
\* decreases and is never larger than the current host round.
C26_LastAnchorRoundBounded ==
  /\ last_anchor_round <= round
  /\ last_anchor_round >= last.pre.last_anchor_round
  /\ (last.op = "anchor_state" /\ last.err = "ok")
       => last_anchor_round > 0

C26_Witness ==
  /\ last.op = "anchor_state"
  /\ last.err = "ok"
  /\ total_anchors = 1
  /\ last_anchor_round = 1
  /\ round = 2

\* C27: total_anchors never wraps.  At UInt64Max an anchor_state call of the
\* authority fails and leaves the state as it was; an accepted call returns
\* the counter it found plus one, never 0 and never a number returned before.
C27_CounterNeverWraps ==
  /\ total_anchors <= UInt64Max
  /\ total_anchors >= last.pre.total_anchors
  /\ (last.op = "anchor_state" /\ last.pre.total_anchors = UInt64Max)
       => (last.err # "ok" /\ GlobalStateNow = last.pre)
  /\ (last.op = "anchor_state" /\ last.err = "ok")
       => (/\ last.ret = last.pre.total_anchors + 1
           /\ last.ret = total_anchors
           /\ last.ret # 0)

C27_Witness ==
  /\ last.op = "anchor_state"
  /\ last.err = "Overflow"
  /\ last.sender = anchor_authority.value
  /\ last.req.state_root # <<>>
  /\ last.pre.total_anchors = UInt64Max
  /\ total_anchors = UInt64Max

\* C28: for each title ASA the trail written by create_title_certificate_asa
\* and transfer_title_asa is linked: the previous_owner_hash of every
\* transfer note is the owner hash recorded by the note before it.
C28_TrailLinked ==
  \A asa_id \in 1..Len(asa_notes) : Linked(asa_notes[asa_id])

\* C28, amended: a transfer note records the old_owner and new_owner of its
\* call as given, so the trail of an ASA stays linked exactly when the call
\* is given as old_owner the owner hash recorded by the note before it.
C28_TrailLinkedWhenCallsAgree ==
  (last.op = "transfer_title_asa" /\ last.err = "ok")
    => LET notes == asa_notes[last.asa_id]
           n == Len(notes)
       IN /\ n >= 2
          /\ notes[n].previous_owner_hash = last.old_owner
          /\ notes[n].new_owner_hash = last.new_owner
          /\ Linked(notes)
               <=> (/\ Linked(SubSeq(notes, 1, n - 1))
                    /\ last.old_owner = RecordedOwner(notes[n - 1]))

C28_Witness ==
  /\ last.op = "transfer_title_asa"
  /\ last.err = "ok"
  /\ last.old_owner # last.new_owner
  /\ Len(asa_notes[last.asa_id]) = 3
  /\ Linked(asa_notes[last.asa_id])

====
